---- MODULE Spec2Model ----
(***************************************************************************)
(* Model of src/backend/server.js: the account store, the register, login  *)
(* and verify handlers, the session token (jsonwebtoken) and the problem   *)
(* report handler.  The file holds two variants of the server: lines 2-299 *)
(* (hashed secrets, unique index, validated input) and lines 301-456       *)
(* (plaintext secrets, no index, no validation).  `variant` says which one *)
(* is running.                                                             *)
(***************************************************************************)
EXTENDS Integers, Sequences, FiniteSets, TLC

VARIABLES
    variant,      \* 1: server.js lines 2-299; 2: server.js lines 301-456
    JWT_SECRET,   \* the signing secret read at start-up
    users,        \* the User collection, in insertion order
    pending,      \* register requests past findOne, awaiting save
    now,          \* the clock, in hours
    held,         \* the token the client kept from a login
    resp,         \* the last response sent, with the request it answers
    problems      \* the Problem collection, in insertion order

vars == <<variant, JWT_SECRET, users, pending, now, held, resp, problems>>

\* ------------------------------------------------------------------ bounds
MaxAccounts == 2
MaxTime == 36
MaxProblems == 2

\* ------------------------------------------------------- program constants
\* bcrypt.hash(password, 10)
BcryptCost == 10
\* expiresIn: "24h"
TokenTTL == 24

FallbackSecret == "fallback_secret"
EnvSecret == "s3cret"
Salts == {"saltA", "saltB"}

\* ------------------------------------------------------------------ inputs
RegisterBodies ==
    { [name |-> "Ana", email |-> "a@x.com", password |-> "pw123"],
      [name |-> "Ana", email |-> "a@x.com", password |-> "pw456"],
      [name |-> "Bea", email |-> "b@x.com", password |-> "pw123"],
      [name |-> "Ana", email |-> "a@x.com", password |-> ""] }

LoginBodies == [email : {"", "a@x.com", "b@x.com"}, password : {"", "pw123", "pw456"}]

\* ------------------------------------------------------------- credentials
\* bcrypt's digest of a secret under a salt and a cost: a value that is not
\* the secret and that only a recomputation with the same salt reproduces.
Digest(cost, salt, secret) == <<"$2a$", cost, salt, secret>>

NoCred == [alg |-> "none", cost |-> 0, salt |-> "", digest |-> <<>>]

BcryptHash(secret, cost, salt) ==
    [alg |-> "bcrypt", cost |-> cost, salt |-> salt, digest |-> Digest(cost, salt, secret)]

\* The secret stored as it came (variant 2: new User({ name, email, password })).
Plain(secret) == [alg |-> "plain", cost |-> 0, salt |-> "", digest |-> <<secret>>]

\* Mutant: the promise of bcrypt.compare tested without await, always truthy.
BcryptCompareUnawaited(secret, cred) == cred.alg = "bcrypt"

BcryptCompare(secret, cred) ==
    /\ cred.alg = "bcrypt"
    /\ cred.digest = Digest(cred.cost, cred.salt, secret)

\* ----------------------------------------------------------- the collection
NoUser == [_id |-> 0, name |-> "", email |-> "", password |-> NoCred]

First(S) == CHOOSE i \in S : \A j \in S : i <= j

\* User.findOne({ email })
FindOneByEmail(store, email) ==
    LET hits == {i \in DOMAIN store : store[i].email = email}
    IN IF hits = {} THEN NoUser ELSE store[First(hits)]

\* User.findOne({ email, password })
FindOneByEmailPassword(store, email, password) ==
    LET hits == {i \in DOMAIN store :
                    store[i].email = email /\ store[i].password = Plain(password)}
    IN IF hits = {} THEN NoUser ELSE store[First(hits)]

\* User.findById(id)
FindById(store, id) ==
    LET hits == {i \in DOMAIN store : store[i]._id = id}
    IN IF hits = {} THEN NoUser ELSE store[First(hits)]

\* email: { type: String, unique: true } in variant 1, email: String in variant 2
UniqueIndex(v) == v = 1

\* the E11000 duplicate key error save() throws under the unique index
DuplicateKey(v, store, email) ==
    UniqueIndex(v) /\ \E i \in DOMAIN store : store[i].email = email

NewUser(store, name, email, cred) ==
    [_id |-> Len(store) + 1, name |-> name, email |-> email, password |-> cred]

\* Mutant: the new document written over the last one stored.
SaveOverLast(store, doc) ==
    IF store = <<>> THEN <<doc>> ELSE [store EXCEPT ![Len(store)] = doc]

Save(store, doc) == Append(store, doc)

\* Mutant: the projection forgotten.
SelectAll(doc) == doc

\* .select("-password")
SelectMinusPassword(doc) == [f \in DOMAIN doc \ {"password"} |-> doc[f]]

\* ------------------------------------------------------------------ tokens
\* The HMAC of a payload under a key: reproduced only with the same key and payload.
Mac(key, payload) == [key |-> key, msg |-> payload]

NoPayload == [userId |-> 0, email |-> "", iat |-> 0, exp |-> 0]

NoToken == [payload |-> NoPayload, sig |-> Mac("", NoPayload)]

\* jwt.sign({ userId: user._id, email: user.email }, JWT_SECRET, { expiresIn: "24h" })
JwtSign(userId, email, key, t) ==
    LET p == [userId |-> userId, email |-> email, iat |-> t, exp |-> t + TokenTTL]
    IN [payload |-> p, sig |-> Mac(key, p)]

\* Mutant: the expiry compared with > instead of >=.
JwtVerifyLate(token, key, t) ==
    IF token.sig # Mac(key, token.payload) THEN "JsonWebTokenError"
    ELSE IF t > token.payload.exp THEN "TokenExpiredError"
    ELSE "ok"

\* Mutant: jwt.decode in place of jwt.verify, the signature never checked.
JwtDecodeOnly(token, key, t) ==
    IF t >= token.payload.exp THEN "TokenExpiredError" ELSE "ok"

\* jwt.verify(token, JWT_SECRET): the signature first, then the expiry
JwtVerify(token, key, t) ==
    IF token.sig # Mac(key, token.payload) THEN "JsonWebTokenError"
    ELSE IF t >= token.payload.exp THEN "TokenExpiredError"
    ELSE "ok"

\* What a client can do to a token it holds: flip the signature, or push the expiry.
Tamper(token) == [token EXCEPT !.sig.key = "flipped"]

Extend(token) == [token EXCEPT !.payload.exp = @ + TokenTTL]

\* Tokens signed by whoever read the fallback secret in the source.
Forged(t) == { JwtSign(1, "a@x.com", FallbackSecret, t) }

\* --------------------------------------------------------------- responses
NoView == [id |-> 0, name |-> "", email |-> ""]

NoBody == [email |-> "", password |-> ""]

\* `at` is the time a token was presented (0 for the other requests).
Response(op, body, t, status, message, token, user) ==
    [op |-> op, body |-> body, at |-> t, status |-> status, message |-> message,
     token |-> token, user |-> user]

NoResponse == Response("none", NoBody, 0, 0, "", NoToken, NoView)

\* !x of a string field: absent or empty
Missing(x) == x = ""

\* ---------------------------------------------------------------- register
\* The handler up to the answer of findOne: the status and message it answers
\* with, or status 0 when it goes on to hash and save.
RegisterCheck(v, store, body) ==
    IF v = 1 /\ (Missing(body.name) \/ Missing(body.email) \/ Missing(body.password))
    THEN [status |-> 400, message |-> "Nombre, email y contraseña son requeridos"]
    ELSE IF FindOneByEmail(store, body.email) # NoUser
    THEN [status |-> 400, message |-> "El usuario ya existe"]
    ELSE [status |-> 0, message |-> ""]

\* The credential material the handler hands to new User(...).
Credential(v, secret, salt) ==
    IF v = 1 THEN BcryptHash(secret, BcryptCost, salt) ELSE Plain(secret)

\* The handler from the hash to its answer: the collection after save() and
\* the status and message.
RegisterCommit(v, store, body, salt) ==
    IF DuplicateKey(v, store, body.email)
    THEN [store |-> store, status |-> 500, message |-> "Error interno del servidor"]
    ELSE [store |-> Save(store, NewUser(store, body.name, body.email,
                                        Credential(v, body.password, salt))),
          status |-> IF v = 1 THEN 201 ELSE 200,
          message |-> "Usuario registrado con éxito"]

RegisterFind(body) ==
    LET r == RegisterCheck(variant, users, body) IN
    /\ IF r.status # 0
       THEN /\ resp' = Response("register", body, 0, r.status, r.message, NoToken, NoView)
            /\ UNCHANGED pending
       ELSE /\ Len(users) + Len(pending) < MaxAccounts
            /\ pending' = Append(pending, body)
            /\ UNCHANGED resp
    /\ UNCHANGED <<variant, JWT_SECRET, users, now, held, problems>>

RegisterSave(i, salt) ==
    /\ i \in DOMAIN pending
    /\ LET body == pending[i]
           r == RegisterCommit(variant, users, body, salt)
       IN /\ users' = r.store
          /\ resp' = Response("register", body, 0, r.status, r.message, NoToken, NoView)
    /\ pending' = SubSeq(pending, 1, i - 1) \o SubSeq(pending, i + 1, Len(pending))
    /\ UNCHANGED <<variant, JWT_SECRET, now, held, problems>>

\* ------------------------------------------------------------------- login
\* The account the handler goes on with after its lookup and comparison,
\* NoUser when it answers 401.
LoginMatch(v, store, body) ==
    IF v = 1
    THEN LET user == FindOneByEmail(store, body.email)
         IN IF user # NoUser /\ BcryptCompare(body.password, user.password)
            THEN user ELSE NoUser
    ELSE FindOneByEmailPassword(store, body.email, body.password)

\* Mutant: an unknown identity answered 404, apart from a wrong secret.
LoginResponseLeaky(v, store, body, key, t) ==
    IF v = 1 /\ (Missing(body.email) \/ Missing(body.password))
    THEN Response("login", body, 0, 400, "Email y contraseña son requeridos", NoToken, NoView)
    ELSE IF FindOneByEmail(store, body.email) = NoUser
    THEN Response("login", body, 0, 404, "Usuario no encontrado", NoToken, NoView)
    ELSE LET user == LoginMatch(v, store, body)
         IN IF user = NoUser
            THEN Response("login", body, 0, 401, "Credenciales inválidas", NoToken, NoView)
            ELSE Response("login", body, 0, 200, "Login exitoso",
                          JwtSign(user._id, user.email, key, t),
                          [id |-> user._id, name |-> user.name, email |-> user.email])

LoginResponse(v, store, body, key, t) ==
    IF v = 1 /\ (Missing(body.email) \/ Missing(body.password))
    THEN Response("login", body, 0, 400, "Email y contraseña son requeridos", NoToken, NoView)
    ELSE IF v = 1 /\ FindOneByEmail(store, body.email) = NoUser
    THEN Response("login", body, 0, 401, "Credenciales inválidas", NoToken, NoView)
    ELSE LET user == LoginMatch(v, store, body)
         IN IF user = NoUser
            THEN Response("login", body, 0, 401, "Credenciales inválidas", NoToken, NoView)
            ELSE Response("login", body, 0, 200, "Login exitoso",
                          JwtSign(user._id, user.email, key, t),
                          [id |-> user._id, name |-> user.name, email |-> user.email])

Login(body) ==
    LET r == LoginResponse(variant, users, body, JWT_SECRET, now) IN
    /\ resp' = r
    /\ held' \in IF r.status = 200 THEN {held, r.token} ELSE {held}
    /\ UNCHANGED <<variant, JWT_SECRET, users, pending, now, problems>>

\* ------------------------------------------------------------------ verify
\* authenticateToken (variant 1) and the first lines of the handler (variant 2):
\* status 0 when the request goes on to findById.
Authenticate(v, token, key, t) ==
    IF token = NoToken
    THEN [status |-> 401, message |-> "Token requerido"]
    ELSE IF JwtVerify(token, key, t) # "ok"
    THEN [status |-> IF v = 1 THEN 403 ELSE 401, message |-> "Token inválido"]
    ELSE [status |-> 0, message |-> ""]

VerifyResponse(v, store, token, key, t) ==
    LET a == Authenticate(v, token, key, t) IN
    IF a.status # 0
    THEN Response("verify", token, t, a.status, a.message, NoToken, NoView)
    ELSE LET user == FindById(store, token.payload.userId)
         IN IF user = NoUser
            THEN Response("verify", token, t, 404, "Usuario no encontrado", NoToken, NoView)
            ELSE Response("verify", token, t, 200, "", NoToken, SelectMinusPassword(user))

\* The Authorization headers a client can send.
Presentable == {NoToken, held} \cup
               (IF held = NoToken THEN {} ELSE {Tamper(held), Extend(held)}) \cup
               Forged(now)

Verify(token) ==
    /\ resp' = VerifyResponse(variant, users, token, JWT_SECRET, now)
    /\ UNCHANGED <<variant, JWT_SECRET, users, pending, now, held, problems>>

\* ------------------------------------------------------------------- clock
Tick(d) ==
    /\ now + d <= MaxTime
    /\ now' = now + d
    /\ UNCHANGED <<variant, JWT_SECRET, users, pending, held, resp, problems>>

\* ---------------------------------------------------------------- problems
\* Strings whose letters the handler inspects are sequences of characters.
LowerCase == <<"a", "b", "d", "e", "g", "i", "j", "l", "m", "n", "r", "t", "u">>

UpperCase == <<"A", "B", "D", "E", "G", "I", "J", "L", "M", "N", "R", "T", "U">>

ToUpper(c) ==
    IF \E i \in DOMAIN LowerCase : LowerCase[i] = c
    THEN UpperCase[CHOOSE i \in DOMAIN LowerCase : LowerCase[i] = c]
    ELSE c

ToLower(c) ==
    IF \E i \in DOMAIN UpperCase : UpperCase[i] = c
    THEN LowerCase[CHOOSE i \in DOMAIN UpperCase : UpperCase[i] = c]
    ELSE c

\* urgency.charAt(0).toUpperCase() + urgency.slice(1).toLowerCase()
NormalizeUrgency(u) ==
    [i \in DOMAIN u |-> IF i = 1 THEN ToUpper(u[i]) ELSE ToLower(u[i])]

Baja == <<"B", "a", "j", "a">>
Media == <<"M", "e", "d", "i", "a">>
Alta == <<"A", "l", "t", "a">>

\* ["Baja", "Media", "Alta"]: validUrgencies and the schema's enum
ValidUrgencies == {Baja, Media, Alta}

UrgencyInputs ==
    { <<>>, <<"a", "l", "t", "a">>, <<"A", "L", "T", "A">>, Alta,
      <<"b", "A", "J", "A">>, Media, <<"u", "r", "g", "e", "n", "t", "e">> }

ProblemBodies ==
    { [title |-> "t", description |-> "d", category |-> "c", urgency |-> u] :
        u \in UrgencyInputs } \cup
    { [title |-> "",  description |-> "d", category |-> "c", urgency |-> Alta],
      [title |-> "t", description |-> "",  category |-> "c", urgency |-> Alta],
      [title |-> "t", description |-> "d", category |-> "",  urgency |-> Alta] }

\* ProblemSchema: every field required, urgency in the enum
ProblemSchemaValid(doc) ==
    /\ doc.title # ""
    /\ doc.description # ""
    /\ doc.category # ""
    /\ doc.urgency # <<>>
    /\ doc.urgency \in ValidUrgencies

NewProblem(body, t) ==
    [title |-> body.title, description |-> body.description, category |-> body.category,
     urgency |-> NormalizeUrgency(body.urgency), createdAt |-> t]

\* The handler's own checks: the status and message it answers with, or
\* status 0 when it goes on to save.
ProblemCheck(v, body) ==
    IF v = 2 THEN [status |-> 0, message |-> ""]
    ELSE IF \/ Missing(body.title) \/ Missing(body.description)
            \/ Missing(body.category) \/ body.urgency = <<>>
    THEN [status |-> 400, message |-> "Todos los campos son requeridos"]
    ELSE IF NormalizeUrgency(body.urgency) \notin ValidUrgencies
    THEN [status |-> 400, message |-> "Nivel de urgencia no válido"]
    ELSE [status |-> 0, message |-> ""]

\* The whole handler: the collection after it and the status and message.
ProblemCommit(v, store, body, t) ==
    LET c == ProblemCheck(v, body) IN
    IF c.status # 0
    THEN [store |-> store, status |-> c.status, message |-> c.message]
    ELSE IF ~ProblemSchemaValid(NewProblem(body, t))
    THEN [store |-> store, status |-> 500, message |-> "No se pudo guardar el problema"]
    ELSE [store |-> Append(store, NewProblem(body, t)), status |-> 201,
          message |-> "Problema guardado exitosamente"]

CreateProblem(body) ==
    LET r == ProblemCommit(variant, problems, body, now) IN
    /\ r.store # problems => Len(problems) < MaxProblems
    /\ problems' = r.store
    /\ resp' = Response("problem", body, 0, r.status, r.message, NoToken, NoView)
    /\ UNCHANGED <<variant, JWT_SECRET, users, pending, now, held>>

\* ---------------------------------------------------------- specifications
\* Variant 1 exits at start-up without JWT_SECRET; variant 2 falls back.
Configs == { <<1, EnvSecret>>, <<2, EnvSecret>>, <<2, FallbackSecret>> }

Init ==
    /\ \E c \in Configs : variant = c[1] /\ JWT_SECRET = c[2]
    /\ users = <<>>
    /\ pending = <<>>
    /\ now = 0
    /\ held = NoToken
    /\ resp = NoResponse
    /\ problems = <<>>

Register == \E body \in RegisterBodies : RegisterFind(body)

RegisterDone == \E i \in DOMAIN pending, salt \in Salts : RegisterSave(i, salt)

LoginRequest == \E body \in LoginBodies : Login(body)

VerifyRequest == \E token \in Presentable : Verify(token)

\* Time passes in steps of half a token's lifetime.
Clock == Tick(TokenTTL \div 2)

Next == Register \/ RegisterDone \/ LoginRequest \/ VerifyRequest \/ Clock

Spec == Init /\ [][Next]_vars

ProblemRequest == \E body \in ProblemBodies : CreateProblem(body)

NextProblems == ProblemRequest \/ Clock

SpecProblems == Init /\ [][NextProblems]_vars

\* ====================================================================
\* Properties
\* ====================================================================

\* The secret a credential was made from (read off the model's digest).
SecretOf(cred) == cred.digest[Len(cred.digest)]

\* The accounts stored under an identity.
AccountsOf(store, email) == {i \in DOMAIN store : store[i].email = email}

\* An account with this identity, registered with this secret, is stored.
Registered(store, email, secret) ==
    \E i \in AccountsOf(store, email) : SecretOf(store[i].password) = secret

\* The collection without the accounts of an identity.
Without(store, email) == SelectSeq(store, LAMBDA u : u.email # email)

Success == {200, 201}

\* Supporting fact: under the unique index of variant 1 identities stay unique.
IdentityUniqueVariant1 ==
    variant = 1 => \A i, j \in DOMAIN users : users[i].email = users[j].email => i = j

\* C1: in every reachable state no two stored accounts have the same
\* identity (email), however the findOne and save steps of register
\* requests interleave.
C1_IdentityUnique ==
    \A i, j \in DOMAIN users : users[i].email = users[j].email => i = j

\* C2: a register call, all fields given, for an identity that an earlier
\* successful register already stored is answered 400 "El usuario ya existe",
\* and exactly one account with that identity exists afterward.
C2_SecondRegisterRejected ==
    [][\A body \in RegisterBodies :
         ( /\ RegisterFind(body)
           /\ ~Missing(body.name) /\ ~Missing(body.email) /\ ~Missing(body.password)
           /\ AccountsOf(users, body.email) # {} )
         => /\ resp'.op = "register" /\ resp'.body = body
            /\ resp'.status = 400
            /\ resp'.message = "El usuario ya existe"
            /\ Cardinality(AccountsOf(users', body.email)) = 1]_vars

C5_StoredCredentialIsHash ==
    /\ \A i \in DOMAIN users :
         /\ \E salt \in Salts :
              users[i].password = BcryptHash(SecretOf(users[i].password), BcryptCost, salt)
         /\ users[i].password # Plain(SecretOf(users[i].password))
    /\ (resp.op = "login" /\ resp.status = 200)
         => \E i \in AccountsOf(users, resp.body.email) :
               BcryptCompare(resp.body.password, users[i].password)

\* C6: a token returned by a successful login, presented to verify strictly
\* before its expiry, is answered 200 with the account that logged in (same
\* id and identity), the credential material left out.
C6_TokenRoundTrip ==
    /\ ( /\ resp.op = "verify" /\ held # NoToken /\ resp.body = held
         /\ resp.at < held.payload.exp )
       => /\ resp.status = 200
          /\ "password" \notin DOMAIN resp.user
          /\ resp.user._id = held.payload.userId
          /\ resp.user.email = held.payload.email
          /\ \E i \in DOMAIN users :
                /\ users[i]._id = resp.user._id
                /\ users[i].email = resp.user.email
                /\ users[i].name = resp.user.name
    /\ (held # NoToken /\ now < held.payload.exp)
       => VerifyResponse(variant, users, held, JWT_SECRET, now).status = 200

C6_Witness ==
    /\ resp.op = "verify" /\ resp.status = 200
    /\ held # NoToken /\ resp.body = held
    /\ resp.at > held.payload.iat

\* The status and message of a response: what tells failure kinds apart.
Kind(r) == <<r.status, r.message>>

\* A verify response to a correctly signed token presented at or after its expiry.
ExpiredPresented ==
    /\ resp.op = "verify"
    /\ resp.body # NoToken
    /\ resp.body.sig = Mac(JWT_SECRET, resp.body.payload)
    /\ resp.at >= resp.body.payload.exp

\* C7 as stated: an expired, correctly signed token is rejected with a
\* failure the caller can tell apart from that of a token whose signature
\* does not check, and is never reported as invalid.
C7_ExpiredToldApart ==
    ExpiredPresented
    => /\ resp.status # 200
       /\ Kind(resp) # Kind(VerifyResponse(variant, users, Tamper(resp.body),
                                           JWT_SECRET, resp.at))
       /\ resp.message # "Token inválido"

\* C7 as amended: an expired, correctly signed token is always rejected,
\* never accepted, with the same response as a token whose signature does
\* not check: 403 (variant 1) or 401 (variant 2), "Token inválido".
C7_ExpiredRejectedAsInvalid ==
    ExpiredPresented
    => /\ resp.status = (IF variant = 1 THEN 403 ELSE 401)
       /\ resp.message = "Token inválido"
       /\ resp.user = NoView
       /\ Kind(resp) = Kind(VerifyResponse(variant, users, Tamper(resp.body),
                                           JWT_SECRET, resp.at))

C7_Witness ==
    /\ ExpiredPresented
    /\ resp.body = held
    /\ resp.at = held.payload.exp

\* The tokens in play: those a client can present, the one last presented
\* and the one last issued.
Known ==
    Presentable \cup (IF resp.op = "verify" THEN {resp.body} ELSE {})
                \cup (IF resp.op = "login" THEN {resp.token} ELSE {})

\* verify turns the token away before looking the account up: no token,
\* a signature that does not check, or an expired token
Rejected(token) == Authenticate(variant, token, JWT_SECRET, now).status # 0

\* verify answers the token with the account
Accepted(token) == VerifyResponse(variant, users, token, JWT_SECRET, now).status = 200

\* C8: a token verify has rejected as expired or badly signed is accepted by
\* no later verify, whatever happened in between (a register, a new login,
\* time passing); a token with an altered signature is rejected at every time.
C8_RejectedStaysRejected ==
    /\ [](/\ \A token \in Presentable \ {NoToken} :
               Rejected(Tamper(token)) /\ ~Accepted(Tamper(token))
          /\ (resp.op = "verify" /\ resp.body.sig # Mac(JWT_SECRET, resp.body.payload))
               => resp.status \in {401, 403})
    /\ [][\A token \in Known : Rejected(token) => ~Accepted(token)']_vars

C8_Witness ==
    /\ resp.op = "login" /\ resp.status = 200
    /\ held # NoToken /\ held # resp.token
    /\ held.payload.userId = resp.token.payload.userId
    /\ Rejected(held)
    /\ ~Rejected(resp.token)

\* The urgency a problem report asks for is missing or, normalized, not one of the set.
Refused(body) ==
    \/ Missing(body.title) \/ Missing(body.description) \/ Missing(body.category)
    \/ body.urgency = <<>>
    \/ NormalizeUrgency(body.urgency) \notin ValidUrgencies

\* C9: a problem report with a missing field or an urgency that, normalized,
\* is not Baja, Media or Alta is answered 400 and stores nothing; any other
\* stores exactly one problem with the normalized urgency; every stored
\* problem has an urgency of the set.
C9_ProblemValidated ==
    /\ [](\A i \in DOMAIN problems : problems[i].urgency \in ValidUrgencies)
    /\ [][\A body \in ProblemBodies :
            CreateProblem(body)
            => IF Refused(body)
               THEN resp'.status = 400 /\ problems' = problems
               ELSE /\ resp'.status = 201
                    /\ Len(problems') = Len(problems) + 1
                    /\ SubSeq(problems', 1, Len(problems)) = problems
                    /\ problems'[Len(problems')].urgency = NormalizeUrgency(body.urgency)
                    /\ problems'[Len(problems')].title = body.title]_vars

\* C10: the account collection changes only when a register succeeds, which
\* appends one account and leaves the others as they were; a refused or
\* failed register, every login and every verify leave it unchanged.
C10_StoreFrame ==
    [][users' # users
         => /\ resp'.op = "register" /\ resp'.status \in Success
            /\ Len(users') = Len(users) + 1
            /\ SubSeq(users', 1, Len(users)) = users
            /\ users'[Len(users')].email = resp'.body.email
            /\ users'[Len(users')].name = resp'.body.name]_vars

C10_Witness ==
    /\ resp.op = "register" /\ resp.status \in Success
    /\ Len(users) = 2
    /\ users[2].email = resp.body.email

====
